---- MODULE Spec2Model ----
(***************************************************************************)
(* A model of src/main.py: the DiscordSelfBot of discord-selfbot-railway.  *)
(*                                                                         *)
(* Two coroutines run on one asyncio event loop: claim_check_loop (the     *)
(* hourly "$tu" probe followed by the "$wa" rolls) and                     *)
(* message_monitor_loop (the poll of the channel that reacts to loot).     *)
(* A coroutine runs atomically from one await to the next, so an action    *)
(* of the model is the code between two awaits.  An asyncio.sleep that is  *)
(* directly followed by an HTTP request is folded into the request's       *)
(* action: the sleep reads and writes nothing, so the fold only removes    *)
(* stuttering interleavings.                                               *)
(*                                                                         *)
(* Message text is a sequence of tokens: a token is a piece of text that   *)
(* the code's substring tests and regular expressions never split.         *)
(* Time is counted in ticks of half a second.                              *)
(***************************************************************************)
EXTENDS Integers, Sequences, FiniteSets, TLC

\* ------------------------------------------------------------------ bounds

\* The channel holds at most MaxMsgs messages in a run of the model.
MaxMsgs == 3

\* The largest Retry-After value (seconds) the server sends in the model.
MaxRetryAfter == 3

\* ------------------------------------------------------- program constants

MODAY_UID == "432610292342587392"

\* limit of get_recent_messages in check_claim_and_execute and in
\* message_monitor_loop
ClaimFetchLimit == 10
MonitorFetchLimit == 15

\* Retry-After defaults (seconds) of send_message and add_reaction
SendRetryDefault == 5
ReactRetryDefault == 1

\* The keys of LOOT_EMOJIS in the dict's (insertion) order.  The keys of the
\* source are the mis-decoded byte strings of the emoji; they are named here
\* by the loot type the dict maps them to.
LOOT_EMOJIS ==
  << "k:gem_blue", "k:gem_yellow", "k:gem_white", "k:gem_orange",
     "k:kakera_yellow", "k:kakera_white", "k:kakera_orange",
     "k:kakera_orange_diamond", "k:treasure", "k:trophy" >>

\* ------------------------------------------------------------------ text

\* str.lower() on a token.
Lower(tok) ==
  CASE tok = "You have **"       -> "you have **"
    [] tok = "YOU HAVE **"       -> "you have **"
    [] tok = "You can't claim. " -> "you can't claim. "
    [] tok = "You Can't Claim. " -> "you can't claim. "
    [] tok = "You can claim! "   -> "you can claim! "
    [] tok = "**Rem**"           -> "**rem**"
    [] tok = " Claims "          -> " claims "
    [] OTHER                     -> tok

\* needle in tok, for the needles the code searches for (Python's `in`
\* on strings is case-sensitive).
TokenHas(tok, needle) ==
  \/ tok = needle
  \/ << tok, needle >> \in
       { << "you have **", "you have" >>,
         << "you can't claim. ", "claim" >>,
         << "you can't claim. ", "can't claim" >>,
         << "you can't claim. ", "you can't claim" >>,
         << "you can claim! ", "claim" >>,
         << " claims ", "claim" >>,
         << " claims ", "claims" >>,
         << " Claims ", "Claims" >> }

\* needle in content
Contains(content, needle) ==
  \E i \in 1..Len(content) : TokenHas(content[i], needle)

\* content.lower()
LowerContent(content) == [i \in 1..Len(content) |-> Lower(content[i])]

Digits == {"0", "1", "2", "3", "4", "5", "6", "7", "8", "9"}

DigitValue(d) ==
  CASE d = "0" -> 0 [] d = "1" -> 1 [] d = "2" -> 2 [] d = "3" -> 3
    [] d = "4" -> 4 [] d = "5" -> 5 [] d = "6" -> 6 [] d = "7" -> 7
    [] d = "8" -> 8 [] d = "9" -> 9

\* int() of the digit tokens content[from..to]
RECURSIVE DigitsToInt(_, _, _)
DigitsToInt(content, from, to) ==
  IF to < from THEN 0
  ELSE 10 * DigitsToInt(content, from, to - 1) + DigitValue(content[to])

\* The end of the longest run of digit tokens that starts at i (i - 1 when
\* content[i] is no digit): the greedy \d+ of the regular expression.
RECURSIVE DigitRunEnd(_, _)
DigitRunEnd(content, i) ==
  IF i <= Len(content) /\ content[i] \in Digits
  THEN DigitRunEnd(content, i + 1)
  ELSE i - 1

\* re.search(r"You have \*\*(\d+)\*\* rolls left", content) anchored at
\* token i: the match's group(1) as << from, to >>, or << >>.
RollsMatchAt(content, i) ==
  IF content[i] # "You have **" THEN << >>
  ELSE LET e == DigitRunEnd(content, i + 1)
       IN IF e >= i + 1 /\ e + 1 <= Len(content) /\ content[e + 1] = "** rolls left"
          THEN << i + 1, e >>
          ELSE << >>

\* re.search scans left to right and returns the first match.
RECURSIVE RollsSearch(_, _)
RollsSearch(content, i) ==
  IF i > Len(content) THEN << >>
  ELSE IF RollsMatchAt(content, i) # << >> THEN RollsMatchAt(content, i)
  ELSE RollsSearch(content, i + 1)

\* rolls_left read from the first digit of the match alone.
ExtractRollsLeftFirstDigit(content) ==
  LET m == RollsSearch(content, 1)
  IN IF m = << >> THEN 0 ELSE DigitValue(content[m[1]])

\* rolls_left of check_claim_and_execute
ExtractRollsLeft(content) ==
  LET m == RollsSearch(content, 1)
  IN IF m = << >> THEN 0 ELSE DigitsToInt(content, m[1], m[2])


\* extract_character_name, on tokens: the text a token holds between one of
\* the patterns' delimiters, or "" for a token that matches no pattern.
\* (patterns[0] is the bold marker **...**; "**" alone has nothing between.)
Delimited(tok) ==
  CASE tok = "**Rem**" -> "Rem"
    [] tok = "**$wa**" -> "$wa"
    [] OTHER           -> ""

\* len(clean_match) > 2 and not clean_match.isdigit()
\* and not clean_match.startswith('$')
QualifiesAsName(text) == text = "Rem"

\* The first qualifying match, or "" for None.  A run of digits between the
\* bold markers of "You have **N** rolls left" is a match that isdigit()
\* rejects; it spans several tokens and yields no name.
RECURSIVE FirstName(_, _)
FirstName(content, i) ==
  IF i > Len(content) THEN ""
  ELSE IF QualifiesAsName(Delimited(content[i])) THEN Delimited(content[i])
  ELSE FirstName(content, i + 1)

extract_character_name(content) == FirstName(content, 1)

\* ------------------------------------------------------------ identities

SelfUser  == [id |-> "self-id", username |-> "ash"]
PeerUser  == [id |-> MODAY_UID, username |-> "Mudae"]
FanUser   == [id |-> "fan-id", username |-> "MoDay fan"]
AliasUser == [id |-> "alias-id", username |-> "Mudae#0807"]
Stranger  == [id |-> "bob-id", username |-> "bob"]

\* "author": null in a message of the payload: message.get("author", {}) is
\* None, and author.get(...) raises AttributeError.
NullAuthor == [id |-> "null", username |-> "null"]

\* needle in username
UsernameHas(username, needle) ==
  \/ username = needle
  \/ << username, needle >> \in { << "MoDay fan", "MoDay" >> }

\* f"<@{self.user_info['id']}>"
UserMention(info) == "<@" \o info.id \o ">"

\* ------------------------------------------------------------- transport

\* HTTP outcomes of a request: a status, or a network exception ("exc").
\* Each request meets the statuses its code tells apart and one other.
Statuses == {"200", "201", "204", "429", "403", "exc"}
GetStatuses   == {"200", "429", "403", "exc"}
PostStatuses  == {"200", "201", "429", "403", "exc"}
PutStatuses   == {"204", "429", "403", "exc"}

\* The Retry-After header of a 429 response: absent, or a number of seconds.
RetryHeaders == {<< >>} \cup {<< n >> : n \in 0..MaxRetryAfter}

\* int(response.headers.get('Retry-After', default))
RetryAfterOf(hdr, default) == IF hdr = << >> THEN default ELSE hdr[1]

\* The last `limit` messages of the channel, newest first: what the
\* platform returns for GET /channels/{id}/messages?limit=N.
RECURSIVE NewestFirst(_, _)
NewestFirst(chan, limit) ==
  IF chan = << >> \/ limit = 0 THEN << >>
  ELSE << chan[Len(chan)] >> \o NewestFirst(SubSeq(chan, 1, Len(chan) - 1), limit - 1)

\* get_recent_messages raising on a failure, as get_user_info does.
GetRecentMessagesRaises(status, chan, limit) ==
  IF status = "200"
  THEN [kind |-> "return", value |-> NewestFirst(chan, limit)]
  ELSE [kind |-> "raise", value |-> << >>]

\* get_recent_messages: [kind |-> "return", value |-> list]
GetRecentMessagesOutcome(status, chan, limit) ==
  IF status = "200"
  THEN [kind |-> "return", value |-> NewestFirst(chan, limit)]
  ELSE [kind |-> "return", value |-> << >>]

\* send_message: the parsed payload ("data"), None, or the 429 branch.
SendMessageOutcome(status) ==
  IF status \in {"200", "201"} THEN [kind |-> "return", value |-> "data"]
  ELSE IF status = "429" THEN [kind |-> "retry", value |-> "None"]
  ELSE [kind |-> "return", value |-> "None"]

\* add_reaction: True, False, or the 429 branch.
AddReactionOutcome(status) ==
  IF status = "204" THEN [kind |-> "return", value |-> "True"]
  ELSE IF status = "429" THEN [kind |-> "retry", value |-> "False"]
  ELSE [kind |-> "return", value |-> "False"]

\* The backoff sleep without the advised wait.
SendBackoffJitterOnly(retry_after, jitter) == jitter

\* asyncio.sleep(retry_after + random.uniform(1, 3)), in ticks
SendBackoffTicks(retry_after, jitter) == 2 * retry_after + jitter
SendJitterTicks == {2, 6}

\* delay = random.uniform(1.0, 2.0) before every POST, in ticks
SendDelayTicks == {2, 4}

\* asyncio.sleep(retry_after + random.uniform(0.5, 1.5)), in ticks
ReactBackoffTicks(retry_after, jitter) == 2 * retry_after + jitter
ReactJitterTicks == {1, 3}


\* ----------------------------------------------------------------- state

VARIABLES
  spc,              \* start(): "start", "gather" (both loops run), "closed"
  session,          \* self.session: "none", "open", "closed"
  user_info,        \* self.user_info: << >> (None) or the identity
  running,          \* self.running
  interrupted,      \* << >>, or where a KeyboardInterrupt met the two loops
  channel,          \* the channel's messages, oldest first (the platform)
  \* message_monitor_loop
  mpc,              \* where the monitor is suspended
  last_message_id,  \* the cursor; 0 is None
  messages,         \* the batch of the current scan, newest first
  mi,               \* index in messages of the message being handled
  ei,               \* index in LOOT_EMOJIS of the reaction being added
  mrl,              \* the Retry-After header of the 429 being waited out
  \* check_claim_and_execute / claim_check_loop
  cpc,              \* where the claim loop is suspended
  recent_messages,  \* the batch fetched after the probe, newest first
  moday_response,   \* the selected reply's content; << >> is None
  rolls_left,
  ri,               \* i of `for i in range(rolls_left)`
  sending,          \* the content send_message was called with; "" outside
  crl,              \* the Retry-After header of the 429 being waited out
  cycleEnd,         \* << >> during a cycle; after it, how it ended and the
                    \* sleep claim_check_loop then entered
  \* observations (no code reads them)
  dispatched,       \* id -> calls of handle_moday_message, counted up to 2
  handleLog,        \* the calls of the handle_moday_message of this scan
                    \* that ran last, and what add_reaction returned
  collected,        \* << id, name >> of the lines of collected_characters.txt
  cycleLog,         \* what the current claim cycle did, in order
  lastScan,         \* how a scan of the monitor ended in the last step
  lastReturn,       \* the transport call that returned in the last step
  lastRetry         \* the re-issue of a rate-limited call in the last step

vars == << spc, session, user_info, running, interrupted, channel,
           mpc, last_message_id, messages, mi, ei, mrl,
           cpc, recent_messages, moday_response, rolls_left, ri, sending, crl,
           cycleEnd, dispatched, handleLog, collected, cycleLog, lastScan, lastReturn,
           lastRetry >>

mainVars    == << spc, session, user_info, running, interrupted >>
monitorVars == << mpc, last_message_id, messages, mi, ei, mrl,
                  dispatched, handleLog, collected >>
claimVars   == << cpc, recent_messages, moday_response, rolls_left, ri, sending,
                  crl, cycleEnd, cycleLog >>

NoCall == [loop |-> "none", op |-> "none", status |-> "none", kind |-> "none",
           value |-> "none"]

Init ==
  /\ spc = "start"
  /\ session = "none"
  /\ user_info = << >>
  /\ running = FALSE
  /\ interrupted = << >>
  /\ channel = << >>
  /\ mpc = "poll"
  /\ last_message_id = 0
  /\ messages = << >>
  /\ mi = 0
  /\ ei = 0
  /\ mrl = << >>
  /\ cpc = "wait"
  /\ recent_messages = << >>
  /\ moday_response = << >>
  /\ rolls_left = 0
  /\ ri = 0
  /\ sending = ""
  /\ crl = << >>
  /\ cycleEnd = << >>
  /\ dispatched = [id \in 1..MaxMsgs |-> 0]
  /\ handleLog = << >>
  /\ collected = {}
  /\ cycleLog = << >>
  /\ lastScan = "none"
  /\ lastReturn = NoCall
  /\ lastRetry = << >>

\* ----------------------------------------------------------- Coordinator

\* The finally clause of start() without its close().
SessionLeftOpen(s) == s

\* `finally: if self.session: await self.session.close()` of start()
SessionAfterFinally(s) == IF s # "none" THEN "closed" ELSE s

\* The sleeps as time.sleep(...): a loop in a backoff or a pacing sleep holds
\* the event loop.
LoopHeldBySleep(pc) == pc \in {"send_backoff", "react_backoff", "pace"}

\* `await asyncio.sleep(...)` suspends the coroutine that awaits and hands
\* the event loop on: a loop suspended at pc holds the other loop back at no
\* pc.
LoopHeldBy(pc) == FALSE

\* start(): the session is created, get_user_info answered 200, running is
\* set and both loops are gathered.
StartOk ==
  /\ spc = "start"
  /\ session' = "open"
  /\ user_info' = SelfUser
  /\ running' = TRUE
  /\ spc' = "gather"
  /\ UNCHANGED << interrupted, channel, monitorVars, claimVars, lastScan, lastReturn,
                  lastRetry >>

\* start(): get_user_info raised (any other status, or a network error);
\* the except clause logs and the finally clause closes the session that
\* line 64 opened.
StartFail ==
  /\ spc = "start"
  /\ \E status \in Statuses \ {"200"} : TRUE
  /\ session' = SessionAfterFinally("open")
  /\ spc' = "closed"
  /\ UNCHANGED << user_info, running, interrupted, channel, monitorVars, claimVars,
                  lastScan, lastReturn, lastRetry >>

\* ------------------------------------------------------------- platform

Message(id, author, content, components) ==
  [id |-> id, author |-> author, content |-> content, components |-> components]

\* Someone posts in the channel: the peer bot, the account's owner from
\* another client, or any other member.
Post(author, content, components) ==
  /\ Len(channel) < MaxMsgs
  /\ channel' = Append(channel, Message(Len(channel) + 1, author, content, components))


\* ------------------------------------------------- message_monitor_loop

Min(a, b) == IF a < b THEN a ELSE b

\* The for loop over reversed(messages) from position p down (p = 0: the
\* loop is exhausted), up to its next await: the position of the message
\* handed to handle_moday_message, 0 when the loop ends, by exhaustion or
\* by the break at the cursor, or -1 when author.get raises.
RECURSIVE NextDispatch(_, _, _, _)
NextDispatch(msgs, p, cursor, info) ==
  IF p = 0 THEN 0
  ELSE IF cursor # 0 /\ msgs[p].id = cursor THEN 0
  ELSE IF msgs[p].author = NullAuthor THEN -1
  ELSE IF msgs[p].author.id = info.id THEN NextDispatch(msgs, p - 1, cursor, info)
  ELSE IF msgs[p].author.id = MODAY_UID \/ UsernameHas(msgs[p].author.username, "MoDay")
       THEN p
  ELSE NextDispatch(msgs, p - 1, cursor, info)

\* The cursor update without its `if messages` guard: an empty batch
\* forgets the cursor.
CursorResetOnEmpty(msgs, cursor) ==
  IF msgs # << >> THEN msgs[1].id ELSE 0

\* `if messages: last_message_id = messages[0].get("id")`
CursorAfterScan(msgs, cursor) ==
  IF msgs # << >> THEN msgs[1].id ELSE cursor

\* The except clause of the loop advancing the cursor as a completed scan
\* does.
CursorAdvancedOnError(msgs, cursor) ==
  IF msgs # << >> THEN msgs[1].id ELSE cursor

\* The except clause of message_monitor_loop logs and sleeps 30 .. 60
\* seconds: the cursor keeps its value.
CursorAfterFailedScan(msgs, cursor) == cursor

\* The loop without its except clause: what is raised in an iteration ends
\* the coroutine.
AfterMonitorErrorRaised == "cancelled"

\* Where the except clause of message_monitor_loop leaves the loop: it
\* logs, sleeps 30 .. 60 seconds and goes back to `while self.running`.
AfterMonitorError == "poll"

\* The loop over LOOT_EMOJIS leaving at the first emoji the content lacks.
NextEmojiStopsAtMiss(content, j) ==
  IF j <= Len(LOOT_EMOJIS) /\ Contains(content, LOOT_EMOJIS[j]) THEN j ELSE 0

\* `for emoji, loot_type in LOOT_EMOJIS.items(): if emoji in content`: the
\* first index from j on whose emoji occurs in the content, or 0.
RECURSIVE NextEmoji(_, _)
NextEmoji(content, j) ==
  IF j > Len(LOOT_EMOJIS) THEN 0
  ELSE IF Contains(content, LOOT_EMOJIS[j]) THEN j
  ELSE NextEmoji(content, j + 1)

\* The name handle_moday_message hands to log_collected_character, or "".
CollectedName(content, info) ==
  IF /\ Contains(content, UserMention(info)) \/ Contains(content, info.username)
     /\ \E kw \in {"claims", "rolled", "appears"} : Contains(LowerContent(content), kw)
  THEN extract_character_name(content)
  ELSE ""

\* handle_moday_message pressing the first component of a message that
\* mentions the account.
PressFirstComponent(message, info) ==
  IF Contains(message.content, UserMention(info)) /\ message.components # << >>
  THEN << "press:" \o message.components[1][1] >>
  ELSE << >>

\* The component presses of handle_moday_message: it reads no component of
\* the message and presses none.
ComponentPresses(message, info) == << >>

\* The tail of handle_moday_message after the loop over LOOT_EMOJIS, then
\* its return into the monitor's sleep(0.5 .. 1.5).
HandleTail(message, log) ==
  LET name == CollectedName(message.content, user_info)
  IN /\ collected' = IF name = "" THEN collected
                     ELSE collected \cup {<< message.id, name >>}
     /\ handleLog' = log \o (IF name = "" THEN << >> ELSE << "log:" \o name >>)
                         \o ComponentPresses(message, user_info)
     /\ mpc' = "handled"
     /\ ei' = 0

\* The loop over LOOT_EMOJIS from index j on, up to its next await: the
\* add_reaction call for the next emoji that occurs in the content (its PUT
\* is sent at once), or the tail.
HandleFrom(message, j, log) ==
  LET k == NextEmoji(message.content, j)
  IN IF k > 0
     THEN /\ mpc' = "react"
          /\ ei' = k
          /\ handleLog' = Append(log, "react:" \o LOOT_EMOJIS[k])
          /\ UNCHANGED collected
     ELSE HandleTail(message, log)

\* The scan of batch msgs from position p down, up to its next await: the
\* end of the scan, the except clause of the loop, or the next call of
\* handle_moday_message.
ScanFrom(msgs, p) ==
  LET d == NextDispatch(msgs, p, last_message_id, user_info)
  IN IF d = 0
     THEN /\ last_message_id' = CursorAfterScan(msgs, last_message_id)
          /\ mpc' = "poll"
          /\ mi' = 0
          /\ handleLog' = << >>
          /\ lastScan' = "completed"
          /\ UNCHANGED << ei, collected, dispatched >>
     ELSE IF d = -1
     THEN /\ last_message_id' = CursorAfterFailedScan(msgs, last_message_id)
          /\ mpc' = AfterMonitorError
          /\ mi' = 0
          /\ handleLog' = << >>
          /\ lastScan' = "failed"
          /\ UNCHANGED << ei, collected, dispatched >>
     ELSE /\ mi' = d
          /\ dispatched' = [dispatched EXCEPT ![msgs[d].id] = Min(@ + 1, 2)]
          /\ HandleFrom(msgs[d], 1, << >>)
          /\ lastScan' = "none"
          /\ UNCHANGED last_message_id

\* One iteration starts: `while self.running`, get_recent_messages and the
\* scan up to its first await.  (The sleep(8 .. 15) that ended the previous
\* iteration, or the sleep(30 .. 60) of its except clause, is folded in.)
MonitorFetch ==
  /\ spc = "gather" /\ mpc = "poll" /\ running
  /\ ~LoopHeldBy(cpc)
  /\ \E status \in GetStatuses :
     \E out \in {GetRecentMessagesOutcome(status, channel, MonitorFetchLimit)} :
          /\ lastReturn' =
               [loop |-> "monitor", op |-> "get_recent_messages", status |-> status, kind |-> out.kind,
                value |-> IF out.value = << >> THEN "[]" ELSE "list"]
          /\ IF out.kind = "raise"
             THEN /\ lastScan' = "failed"
                  /\ mpc' = AfterMonitorError
                  /\ UNCHANGED << last_message_id, messages, mi, ei,
                                  dispatched, handleLog, collected >>
             ELSE /\ messages' = out.value
                  /\ ScanFrom(out.value, Len(out.value))
  /\ lastRetry' = << >>
  /\ UNCHANGED << mainVars, channel, mrl, claimVars >>

\* What add_reaction does with a response, and handle_moday_message with
\* its result: the `if success` sleep(0.3 .. 0.8) is folded into the next
\* step.
ReactionResponse(status, hdr) ==
  LET out == AddReactionOutcome(status)
  IN IF out.kind = "retry"
     THEN /\ mpc' = "react_backoff"
          /\ mrl' = << RetryAfterOf(hdr, ReactRetryDefault), hdr,
                       << messages[mi].id, LOOT_EMOJIS[ei] >> >>
          /\ lastReturn' = NoCall
          /\ UNCHANGED << ei, handleLog, collected >>
     ELSE /\ lastReturn' =
               [loop |-> "monitor", op |-> "add_reaction", status |-> status,
                kind |-> out.kind, value |-> out.value]
          /\ mrl' = << >>
          /\ IF out.kind = "raise"
             THEN /\ mpc' = "handled"
                  /\ ei' = 0
                  /\ UNCHANGED << handleLog, collected >>
             ELSE HandleFrom(messages[mi], ei + 1, Append(handleLog, out.value))

\* The answer to the PUT of add_reaction arrives.
MonitorReact ==
  /\ mpc = "react"
  /\ ~LoopHeldBy(cpc)
  /\ \E status \in PutStatuses, hdr \in RetryHeaders :
       /\ status # "429" => hdr = << >>
       /\ ReactionResponse(status, hdr)
  /\ lastRetry' = << >>
  /\ lastScan' = "none"
  /\ UNCHANGED << mainVars, channel, last_message_id, messages, mi, dispatched,
                  claimVars >>

\* The backoff sleep of add_reaction's 429 branch ends and add_reaction
\* calls itself with its own arguments: the new PUT is sent.
MonitorReactRetry ==
  /\ mpc = "react_backoff"
  /\ ~LoopHeldBy(cpc)
  /\ \E jitter \in ReactJitterTicks :
       lastRetry' =
         [op |-> "add_reaction", header |-> mrl[2],
          waited |-> ReactBackoffTicks(mrl[1], jitter),
          limited |-> mrl[3],
          reissued |-> << messages[mi].id, LOOT_EMOJIS[ei] >>]
  /\ mpc' = "react"
  /\ mrl' = << >>
  /\ lastReturn' = NoCall
  /\ lastScan' = "none"
  /\ UNCHANGED << mainVars, channel, last_message_id, messages, mi, ei, dispatched,
                  handleLog, collected, claimVars >>

\* The sleep(0.5 .. 1.5) after handle_moday_message ends: the scan goes on.
MonitorAfterHandle ==
  /\ mpc = "handled"
  /\ ~LoopHeldBy(cpc)
  /\ ScanFrom(messages, mi - 1)
  /\ lastReturn' = NoCall
  /\ lastRetry' = << >>
  /\ UNCHANGED << mainVars, channel, messages, mrl, claimVars >>


\* ---------------------------------- claim_check_loop, check_claim_and_execute

\* The keywords of the reply filter of check_claim_and_execute.
ReplyKeywords == {"claim", "you have", "you may", "can't react", "power", "stock"}

\* The loop over recent_messages leaving after the message at index i.
SelectReplyNewestOnly(msgs, i) ==
  IF i > Len(msgs) THEN << >>
  ELSE IF /\ \/ msgs[i].author.id = MODAY_UID
             \/ UsernameHas(msgs[i].author.username, "Mudae#0807")
          /\ \E kw \in {"claim", "you have", "you may", "can't react", "power", "stock"} :
                Contains(LowerContent(msgs[i].content), kw)
       THEN msgs[i].content
  ELSE << >>

\* The loop over recent_messages from index i on: the content of the first
\* message that passes the author test and the keyword test, or << >>.
RECURSIVE SelectReply(_, _)
SelectReply(msgs, i) ==
  IF i > Len(msgs) THEN << >>
  ELSE IF /\ \/ msgs[i].author.id = MODAY_UID
             \/ UsernameHas(msgs[i].author.username, "Mudae#0807")
          /\ \E kw \in ReplyKeywords : Contains(LowerContent(msgs[i].content), kw)
       THEN msgs[i].content
  ELSE SelectReply(msgs, i + 1)

\* The commented-out block, switched on.
FollowUpCommandsSent(reply) ==
  << IF Contains(LowerContent(reply), "can't claim") THEN "$ql wl" ELSE "$ql wl2", "y" >>

\* The commands check_claim_and_execute sends between the parse of the reply
\* and the rolls: the block that sent "$ql wl" or "$ql wl2" and then "y" is
\* commented out, so none.
FollowUpCommands(reply) == << >>

\* The loop over recent_messages from index i on meets a message whose
\* author is null before it meets a reply: author.get raises.
RECURSIVE SelectRaises(_, _)
SelectRaises(msgs, i) ==
  IF i > Len(msgs) THEN FALSE
  ELSE IF msgs[i].author = NullAuthor THEN TRUE
  ELSE IF SelectReply(<< msgs[i] >>, 1) # << >> THEN FALSE
  ELSE SelectRaises(msgs, i + 1)

\* `if not response` after send_message("$tu") taking no value for a failure.
ProbeNeverFailed(value) == FALSE

\* `if not response: return` after send_message("$tu")
ProbeFailed(value) == value = "None"

\* How check_claim_and_execute leaves a cycle that ended by `end`
\* ("normal", "probe_failed", "no_reply", "exception"): its two early returns
\* return, and its `except Exception` logs what was raised and falls off the
\* end of the function, so it returns in every case.
CheckClaimOutcome(end) == "return"

\* The sleep claim_check_loop enters after check_claim_and_execute: 3600 +-
\* 100 seconds when it returned, 300 .. 600 seconds in the except clause.
SleepAfterCycle(outcome) == IF outcome = "raise" THEN "cooldown" ELSE "interval"

\* The end of a cycle: check_claim_and_execute is left and claim_check_loop
\* sleeps.
CycleEnds(end) ==
  /\ cpc' = "wait"
  /\ sending' = ""
  /\ ri' = 0
  /\ cycleEnd' = << end, SleepAfterCycle(CheckClaimOutcome(end)) >>

\* send_message(content) is called: it draws its delay and sleeps.
CallSendMessage(content) ==
  /\ cpc' = "sending"
  /\ sending' = content

\* A cycle starts: `while self.running`, then check_claim_and_execute calls
\* send_message("$tu").  (The initial delay, or the sleep that ended the
\* previous cycle, is folded in.)
ClaimProbe ==
  /\ spc = "gather" /\ cpc = "wait" /\ running
  /\ ~LoopHeldBy(mpc)
  /\ CallSendMessage("$tu")
  /\ cycleLog' = << "send:$tu" >>
  /\ cycleEnd' = << >>
  /\ recent_messages' = << >>
  /\ moday_response' = << >>
  /\ rolls_left' = 0
  /\ lastScan' = "none"
  /\ lastReturn' = NoCall
  /\ lastRetry' = << >>
  /\ UNCHANGED << mainVars, channel, monitorVars, ri, crl >>

\* send_message's delay ends and its POST is answered.  A 200 or 201 means
\* the platform created the message.  The result of the probe decides
\* whether the cycle goes on; the result of a roll is not looked at, and the
\* pacing sleep(1.15 .. 2.02) starts.
ClaimSend ==
  /\ cpc = "sending"
  /\ ~LoopHeldBy(mpc)
  /\ \E status \in PostStatuses, hdr \in RetryHeaders :
       LET out == SendMessageOutcome(status)
       IN /\ status # "429" => hdr = << >>
          /\ status \in {"200", "201"} => Len(channel) < MaxMsgs
          /\ channel' = IF status \in {"200", "201"}
                        THEN Append(channel,
                                    Message(Len(channel) + 1, user_info, << sending >>, << >>))
                        ELSE channel
          /\ IF out.kind = "retry"
             THEN /\ cpc' = "send_backoff"
                  /\ crl' = << RetryAfterOf(hdr, SendRetryDefault), hdr, << sending >> >>
                  /\ lastReturn' = NoCall
                  /\ UNCHANGED << ri, sending, cycleEnd >>
             ELSE /\ lastReturn' =
                       [loop |-> "claim", op |-> "send_message", status |-> status,
                        kind |-> out.kind, value |-> out.value]
                  /\ crl' = << >>
                  /\ IF out.kind = "raise" THEN CycleEnds("exception")
                     ELSE IF sending = "$tu"
                          THEN IF ProbeFailed(out.value) THEN CycleEnds("probe_failed")
                               ELSE /\ cpc' = "fetch_reply"
                                    /\ sending' = ""
                                    /\ UNCHANGED << ri, cycleEnd >>
                     ELSE /\ cpc' = "pace"
                          /\ sending' = ""
                          /\ UNCHANGED << ri, cycleEnd >>
  /\ lastScan' = "none"
  /\ lastRetry' = << >>
  /\ UNCHANGED << mainVars, monitorVars, recent_messages, moday_response,
                  rolls_left, cycleLog >>

\* The backoff sleep of send_message's 429 branch ends and send_message
\* calls itself with its own arguments: it draws its delay and sleeps, and
\* its POST goes out `waited` ticks after the 429.
ClaimSendRetry ==
  /\ cpc = "send_backoff"
  /\ ~LoopHeldBy(mpc)
  /\ \E jitter \in SendJitterTicks, delay \in SendDelayTicks :
       lastRetry' =
         [op |-> "send_message", header |-> crl[2],
          waited |-> SendBackoffTicks(crl[1], jitter) + delay,
          limited |-> crl[3],
          reissued |-> << sending >>]
  /\ CallSendMessage(sending)
  /\ crl' = << >>
  /\ lastScan' = "none"
  /\ lastReturn' = NoCall
  /\ UNCHANGED << mainVars, channel, monitorVars, recent_messages, moday_response,
                  rolls_left, ri, cycleEnd, cycleLog >>

\* The sleep(1.2 .. 3) after the probe ends: the batch is fetched, the reply
\* selected and parsed, and the first roll, if any, is handed to
\* send_message.
ClaimFetchReply ==
  /\ cpc = "fetch_reply"
  /\ ~LoopHeldBy(mpc)
  /\ \E status \in GetStatuses :
     \E out \in {GetRecentMessagesOutcome(status, channel, ClaimFetchLimit)} :
     \E reply \in {SelectReply(out.value, 1)} :
     \E n \in {ExtractRollsLeft(reply)} :
       LET cmds  == [i \in 1..Len(FollowUpCommands(reply)) |->
                       "send:" \o FollowUpCommands(reply)[i]]
       IN /\ lastReturn' =
               [loop |-> "claim", op |-> "get_recent_messages", status |-> status, kind |-> out.kind,
                value |-> IF out.value = << >> THEN "[]" ELSE "list"]
          /\ IF out.kind = "raise"
             THEN /\ CycleEnds("exception")
                  /\ UNCHANGED << recent_messages, moday_response, rolls_left, cycleLog >>
             ELSE /\ recent_messages' = out.value
                  /\ IF SelectRaises(out.value, 1)
                     THEN /\ CycleEnds("exception")
                          /\ moday_response' = << >>
                          /\ cycleLog' = Append(cycleLog, "get")
                          /\ UNCHANGED rolls_left
                     ELSE /\ moday_response' = reply
                          /\ IF reply = << >>
                             THEN /\ CycleEnds("no_reply")
                                  /\ cycleLog' = Append(cycleLog, "get")
                                  /\ UNCHANGED rolls_left
                             ELSE /\ rolls_left' = n
                                  /\ IF n > 0
                                     THEN /\ CallSendMessage("$wa")
                                          /\ ri' = 0
                                          /\ cycleLog' = (cycleLog \o << "get" >> \o cmds)
                                                           \o << "send:$wa" >>
                                          /\ UNCHANGED cycleEnd
                                     ELSE /\ CycleEnds("normal")
                                          /\ cycleLog' = cycleLog \o << "get" >> \o cmds
  /\ lastScan' = "none"
  /\ lastRetry' = << >>
  /\ UNCHANGED << mainVars, channel, monitorVars, crl >>

\* The pacing sleep ends: the next roll is handed to send_message, or the
\* for loop and the cycle end.
ClaimPaceDone ==
  /\ cpc = "pace"
  /\ ~LoopHeldBy(mpc)
  /\ IF ri + 1 < rolls_left
     THEN /\ CallSendMessage("$wa")
          /\ ri' = ri + 1
          /\ cycleLog' = cycleLog \o << "pace", "send:$wa" >>
          /\ UNCHANGED cycleEnd
     ELSE /\ CycleEnds("normal")
          /\ cycleLog' = Append(cycleLog, "pace")
  /\ lastScan' = "none"
  /\ lastReturn' = NoCall
  /\ lastRetry' = << >>
  /\ UNCHANGED << mainVars, channel, monitorVars, recent_messages, moday_response,
                  rolls_left, crl >>

\* ------------------------------------------------------------- shutdown

\* asyncio.run(main()) meets a KeyboardInterrupt while the loops are
\* gathered: the tasks are cancelled, and CancelledError is raised at the
\* await each loop is suspended in.  CancelledError is no Exception, so no
\* except clause of the loops or of the transport calls catches it: each
\* loop ends where it is, its frame and its locals are gone, and the finally
\* clause of start() closes the session.  main() is left by CancelledError
\* too; its `except KeyboardInterrupt`, the one place that clears
\* self.running, runs only when a second interrupt is raised in main()'s own
\* frames during the close.
Interrupt ==
  /\ spc = "gather"
  /\ interrupted' = << mpc, cpc >>
  /\ spc' = "closed"
  /\ session' = SessionAfterFinally(session)
  /\ \E cleared \in BOOLEAN : running' = (running /\ ~cleared)
  /\ mpc' = "cancelled" /\ cpc' = "cancelled"
  /\ last_message_id' = 0 /\ messages' = << >> /\ mi' = 0 /\ ei' = 0 /\ mrl' = << >>
  /\ recent_messages' = << >> /\ moday_response' = << >> /\ rolls_left' = 0
  /\ ri' = 0 /\ sending' = "" /\ crl' = << >> /\ cycleEnd' = << >>
  /\ handleLog' = << >> /\ cycleLog' = << >>
  /\ lastScan' = "none" /\ lastReturn' = NoCall /\ lastRetry' = << >>
  /\ UNCHANGED << user_info, channel, dispatched, collected >>

\* ------------------------------------------------------ what gets posted

Template(author, content, components) ==
  [author |-> author, content |-> content, components |-> components]

\* Posts the monitor meets: loot, a claim notice that mentions the account,
\* the account's own commands, and a post of a member named after the bot.
MonitorInbox ==
  { Template(PeerUser, << "k:gem_blue", "e:gem" >>, << >>),
    Template(PeerUser, << "k:gem_blue", "<@self-id>", " claims ", "**Rem**", "k:treasure" >>,
             << << "btn-1", "btn-2" >> >>),
    Template(SelfUser, << "$wa" >>, << >>),
    Template(FanUser, << "k:trophy" >>, << >>) }

\* Posts the claim cycle meets: replies to "$tu", and other posts.
ClaimInbox ==
  { Template(PeerUser, << "You can't claim. ", "You have **", "2", "** rolls left" >>, << >>),
    Template(PeerUser, << "You can claim! ", "You have **", "0", "** rolls left" >>, << >>),
    Template(PeerUser, << "YOU HAVE **", "3", "** rolls left" >>, << >>),
    Template(PeerUser, << "hello" >>, << >>),
    Template(AliasUser, << "You have **", "0", "1", "** rolls left" >>, << >>),
    Template(Stranger, << "You have **", "2", "** rolls left" >>, << >>) }

\* Posts both loops meet.
Inbox ==
  { Template(PeerUser, << "You have **", "1", "** rolls left", "k:gem_blue" >>, << >>) }

\* Posts of a claim cycle that fails: a reply to "$tu", and a message whose
\* author the payload gives as null.
CycleInbox ==
  { Template(PeerUser, << "You have **", "1", "** rolls left" >>, << >>),
    Template(NullAuthor, << "hello" >>, << >>) }

\* Posts of a scan that fails: loot, a message whose author the payload
\* gives as null, and a member's chat.
ScanInbox ==
  { Template(PeerUser, << "k:gem_blue" >>, << >>),
    Template(NullAuthor, << "hello" >>, << >>),
    Template(Stranger, << "hello" >>, << >>) }

\* The channel's history when the account connects, for the runs of both
\* loops: a reply to "$tu" with loot in it, and a message whose author the
\* payload gives as null.
BothInbox ==
  { Template(PeerUser, << "You have **", "1", "** rolls left", "k:gem_blue" >>, << >>),
    Template(NullAuthor, << "hello" >>, << >>) }

EnvPost(pool) ==
  /\ \E t \in pool : Post(t.author, t.content, t.components)
  /\ UNCHANGED << mainVars, monitorVars, claimVars, lastScan, lastReturn, lastRetry >>

\* -------------------------------------------------------- specifications

\* The whole program.
Next ==
  \/ StartOk \/ StartFail \/ Interrupt
  \/ EnvPost(Inbox)
  \/ MonitorFetch \/ MonitorReact \/ MonitorReactRetry \/ MonitorAfterHandle
  \/ ClaimProbe \/ ClaimSend \/ ClaimSendRetry \/ ClaimFetchReply \/ ClaimPaceDone

Spec == Init /\ [][Next]_vars

\* message_monitor_loop alone, against every post of MonitorInbox.  What the
\* claim loop does to the channel (it posts as the account) is among them.
NextMonitor ==
  \/ StartOk \/ StartFail
  \/ EnvPost(MonitorInbox)
  \/ MonitorFetch \/ MonitorReact \/ MonitorReactRetry \/ MonitorAfterHandle

SpecMonitor == Init /\ [][NextMonitor]_vars

\* claim_check_loop alone, against every post of ClaimInbox.
NextClaim ==
  \/ StartOk \/ StartFail
  \/ EnvPost(ClaimInbox)
  \/ ClaimProbe \/ ClaimSend \/ ClaimSendRetry \/ ClaimFetchReply \/ ClaimPaceDone

SpecClaim == Init /\ [][NextClaim]_vars

\* claim_check_loop alone, against the posts of CycleInbox.
NextCycle ==
  \/ StartOk \/ StartFail
  \/ EnvPost(CycleInbox)
  \/ ClaimProbe \/ ClaimSend \/ ClaimSendRetry \/ ClaimFetchReply \/ ClaimPaceDone

SpecCycle == Init /\ [][NextCycle]_vars

\* message_monitor_loop alone, against the posts of ScanInbox.
NextScan ==
  \/ StartOk \/ StartFail
  \/ EnvPost(ScanInbox)
  \/ MonitorFetch \/ MonitorReact \/ MonitorReactRetry \/ MonitorAfterHandle

SpecScan == Init /\ [][NextScan]_vars

\* Both loops and the interrupt, against a channel whose history is
\* posted before the account connects: after that only the account posts.
NextBoth ==
  \/ StartOk \/ StartFail \/ Interrupt
  \/ (spc = "start" /\ EnvPost(BothInbox))
  \/ MonitorFetch \/ MonitorReact \/ MonitorReactRetry \/ MonitorAfterHandle
  \/ ClaimProbe \/ ClaimSend \/ ClaimSendRetry \/ ClaimFetchReply \/ ClaimPaceDone

SpecBoth == Init /\ [][NextBoth]_vars

TypeOK ==
  /\ spc \in {"start", "gather", "closed"}
  /\ mpc \in {"poll", "react", "react_backoff", "handled", "cancelled"}
  /\ cpc \in {"wait", "sending", "send_backoff", "fetch_reply", "pace", "cancelled"}
  /\ lastScan \in {"none", "completed", "failed"}
  /\ last_message_id \in 0..MaxMsgs
  /\ Len(channel) <= MaxMsgs


\* ---------------------------------------------------------------- claims

Count(seq, x) == Cardinality({k \in 1..Len(seq) : seq[k] = x})
InSeq(seq, x) == \E k \in 1..Len(seq) : seq[k] = x

\* handle_moday_message is running, or has just returned, in this scan.
InHandle == mpc \in {"react", "react_backoff", "handled"}

\* C1: handle_moday_message is called at most once per message id over all
\* scans, and a scan whose batch has the cursor as its newest message (no new
\* message since the previous scan) calls it for no message.
C1_NeverDispatchedTwice ==
  /\ \A id \in 1..MaxMsgs : dispatched[id] <= 1
  /\ InHandle => ~(last_message_id # 0 /\ messages[1].id = last_message_id)

\* C2: no step lowers the cursor, whatever the fetch of a scan returns.
C2_CursorNeverDecreases == [][last_message_id' >= last_message_id]_vars

\* A fetch failed (the batch is empty) after the cursor had advanced.
C2_Witness ==
  /\ last_message_id >= 2
  /\ messages = << >>
  /\ lastReturn.loop = "monitor" /\ lastReturn.status # "200"

\* "You have **N** rolls left" at tokens i .. j + 1 of the content, N being
\* the digits i + 1 .. j.
RollsPhraseAt(content, i, j) ==
  /\ content[i] = "You have **"
  /\ j > i
  /\ \A k \in (i + 1)..j : content[k] \in Digits
  /\ j + 1 <= Len(content)
  /\ content[j + 1] = "** rolls left"

\* C3: when the selected reply holds "You have **N** rolls left", the cycle
\* calls send_message("$wa") N times (none for N = 0), never more while it
\* runs, and a pacing sleep follows every one of them before the next.
C3_ExactlyNRolls ==
  \A i, j \in 1..Len(moday_response) :
    RollsPhraseAt(moday_response, i, j) =>
      LET n == DigitsToInt(moday_response, i + 1, j)
      IN /\ Count(cycleLog, "send:$wa") <= n
         /\ Count(cycleLog, "pace") <= Count(cycleLog, "send:$wa")
         /\ cpc = "wait" => /\ Count(cycleLog, "send:$wa") = n
                            /\ Count(cycleLog, "pace") = n
         /\ \A k \in 1..(Len(cycleLog) - 1) :
              cycleLog[k] = "send:$wa" => cycleLog[k + 1] = "pace"

\* A cycle ended after the rolls of a reply with N >= 2.
C3_Witness ==
  /\ cpc = "wait"
  /\ \E i, j \in 1..Len(moday_response) :
       /\ RollsPhraseAt(moday_response, i, j)
       /\ DigitsToInt(moday_response, i + 1, j) >= 2
       /\ Count(cycleLog, "send:$wa") = DigitsToInt(moday_response, i + 1, j)

\* C4 as claimed: a cycle that got a reply sends the follow-up command of the
\* reply's class, then the confirmation token, and rolls only after both.
C4_FollowUpThenConfirmation ==
  (cpc = "wait" /\ moday_response # << >>) =>
    /\ Len(cycleLog) >= 4
    /\ cycleLog[3] = (IF Contains(LowerContent(moday_response), "you can't claim")
                      THEN "send:$ql wl" ELSE "send:$ql wl2")
    /\ cycleLog[4] = "send:y"
    /\ \A k \in 1..4 : cycleLog[k] # "send:$wa"

\* C4, amended: a cycle sends no follow-up command and no confirmation token;
\* it sends the probe, fetches, and after that only rolls and paces.
C4_OnlyRollsAfterProbe ==
  /\ \A k \in 1..Len(cycleLog) :
       /\ cycleLog[k] \notin {"send:$ql wl", "send:$ql wl2", "send:y"}
       /\ k = 1 => cycleLog[k] = "send:$tu"
       /\ k = 2 => cycleLog[k] = "get"
       /\ k > 2 => cycleLog[k] \in {"send:$wa", "pace"}
  /\ cpc \in {"sending", "send_backoff"} /\ sending = "$wa" => Len(cycleLog) > 2

\* A cycle whose reply says "you can't claim" ended after its two rolls.
C4_Witness ==
  /\ cpc = "wait"
  /\ Contains(LowerContent(moday_response), "you can't claim")
  /\ cycleLog = << "send:$tu", "get", "send:$wa", "pace", "send:$wa", "pace" >>

\* C5: the re-issue of a call that got a 429 with a Retry-After of W seconds
\* goes out at least W seconds (2 W ticks) after the 429, with the arguments
\* of the call that got it.
C5_RetryHonoursAdvisedWait ==
  lastRetry # << >> =>
    /\ lastRetry.header # << >> => lastRetry.waited >= 2 * lastRetry.header[1]
    /\ lastRetry.reissued = lastRetry.limited

\* send_message re-issued a POST after a 429 with a positive advised wait.
C5_Witness ==
  /\ lastRetry # << >>
  /\ lastRetry.op = "send_message"
  /\ lastRetry.header # << >>
  /\ lastRetry.header[1] > 0

\* C6: no transport call returns to its caller on a 429 response.
C6_RateLimitedNeverReturns == lastReturn.status # "429"

\* The failure value of a transport call.
FailureValue(op) ==
  CASE op = "get_recent_messages" -> "[]"
    [] op = "send_message"        -> "None"
    [] op = "add_reaction"        -> "False"

\* C7: a transport call answered by a status that is neither 2xx nor 429, or
\* cut by a network exception, returns its failure value and does not raise,
\* and the loop that called it goes on: the monitor to its next poll or its
\* next reaction, the claim loop to its pacing sleep or its next cycle.
C7_FailureValueNeverRaises ==
  lastReturn.status \in {"403", "exc"} =>
    /\ lastReturn.kind = "return"
    /\ lastReturn.value = FailureValue(lastReturn.op)
    /\ running
    /\ lastReturn.loop = "monitor" /\ lastReturn.op = "get_recent_messages"
         => mpc = "poll"
    /\ lastReturn.loop = "monitor" /\ lastReturn.op = "add_reaction"
         => mpc \in {"react", "handled"}
    /\ lastReturn.loop = "claim" => cpc \in {"wait", "pace"}

\* A POST was cut by a network exception.
C7_Witness ==
  /\ lastReturn.status = "exc"
  /\ lastReturn.op = "send_message"

PressEvents == {"press:btn-1", "press:btn-2"}

\* handle_moday_message has returned for a message that mentions the
\* account and carries a component.
HandledMentionWithComponent ==
  /\ mpc = "handled"
  /\ Contains(messages[mi].content, UserMention(user_info))
  /\ messages[mi].components # << >>

\* C8 as claimed: such a message gets its first component pressed, once.
C8_PressesFirstComponentOnce ==
  HandledMentionWithComponent =>
    /\ Count(handleLog, "press:" \o messages[mi].components[1][1]) = 1
    /\ Cardinality({k \in 1..Len(handleLog) : handleLog[k] \in PressEvents}) = 1

\* C8, amended: handle_moday_message presses no component, so no message
\* yields a press; for such a message whose content has "claims" and a name
\* it writes the name to the capture file.
C8_NeverPressesLogsName ==
  /\ \A k \in 1..Len(handleLog) : handleLog[k] \notin PressEvents
  /\ HandledMentionWithComponent
       /\ Contains(LowerContent(messages[mi].content), "claims")
       /\ extract_character_name(messages[mi].content) # ""
     => /\ << messages[mi].id, extract_character_name(messages[mi].content) >>
             \in collected
        /\ InSeq(handleLog, "log:" \o extract_character_name(messages[mi].content))

C8_Witness == HandledMentionWithComponent

ReactEvents == {"react:" \o LOOT_EMOJIS[j] : j \in 1..Len(LOOT_EMOJIS)}

\* C9: when handle_moday_message returns, it has called add_reaction once
\* for every key of LOOT_EMOJIS that occurs in the content, whatever the
\* calls returned, for nothing else, and it has pressed no component.
C9_OneReactionPerLootEmoji ==
  mpc = "handled" =>
    /\ \A j \in 1..Len(LOOT_EMOJIS) :
         Count(handleLog, "react:" \o LOOT_EMOJIS[j])
           = IF Contains(messages[mi].content, LOOT_EMOJIS[j]) THEN 1 ELSE 0
    /\ \A k \in 1..Len(handleLog) :
         handleLog[k] \in ReactEvents \cup {"True", "False", "log:Rem"}

\* The first of two reactions failed and the second was still made.
C9_Witness ==
  /\ mpc = "handled"
  /\ Len(handleLog) >= 4
  /\ handleLog[1] = "react:k:gem_blue"
  /\ handleLog[2] = "False"
  /\ handleLog[3] = "react:k:treasure"

\* The reply and the batch of the current cycle, once the fetch is done.
Fetched == InSeq(cycleLog, "get")

FirstIndex(S) == CHOOSE i \in S : \A k \in S : i <= k

\* C10 as claimed: the reply is the newest message of the batch that the
\* peer authored, whatever its content, and the cycle is aborted only when
\* the batch has none.
PeerAuthored == {i \in 1..Len(recent_messages) : recent_messages[i].author.id = MODAY_UID}

C10_FirstPeerAuthored ==
  Fetched =>
    IF PeerAuthored = {} THEN moday_response = << >>
    ELSE moday_response = recent_messages[FirstIndex(PeerAuthored)].content

\* C10, amended: the reply is the newest message of the batch whose author
\* has the peer's id or a username containing "Mudae#0807" and whose
\* lower-cased content contains one of the six keywords; the cycle is aborted
\* when the batch has none.
Qualifying ==
  {i \in 1..Len(recent_messages) :
     /\ \/ recent_messages[i].author.id = MODAY_UID
        \/ UsernameHas(recent_messages[i].author.username, "Mudae#0807")
     /\ \E kw \in {"claim", "you have", "you may", "can't react", "power", "stock"} :
          Contains(LowerContent(recent_messages[i].content), kw)}

C10_FirstQualifying ==
  Fetched =>
    IF Qualifying = {}
    THEN moday_response = << >> /\ cpc = "wait" /\ ~InSeq(cycleLog, "send:$wa")
    ELSE moday_response = recent_messages[FirstIndex(Qualifying)].content

\* The newest message is the peer's, has no keyword and was passed over for
\* an older one.
C10_Witness ==
  /\ Fetched
  /\ Len(recent_messages) >= 2
  /\ recent_messages[1].author.id = MODAY_UID
  /\ moday_response # << >>
  /\ moday_response # recent_messages[1].content

\* C11: a claim cycle that ended by an error (the probe send failed, no
\* reply was found, or an exception was raised in it) is followed by the
\* 300 .. 600 second cooldown, and only a cycle that completed normally by
\* the 3600 +- 100 second interval.
C11_CooldownAfterFailedCycle ==
  cycleEnd # << >> =>
    cycleEnd[2] = (IF cycleEnd[1] = "normal" THEN "interval" ELSE "cooldown")

\* send_message("$tu") has just returned its failure value: the only event
\* of the cycle so far is the probe.
ProbeJustFailed ==
  /\ lastReturn.loop = "claim" /\ lastReturn.op = "send_message"
  /\ lastReturn.value = "None"
  /\ cycleLog = << "send:$tu" >>

\* C12: when the send of the probe returns the failure value, the cycle ends
\* there: no batch is fetched, no reply selected, no follow-up, confirmation
\* or roll sent, and claim_check_loop, still running, waits for its next
\* scheduled cycle.
C12_ProbeFailureAbortsCycle ==
  /\ ProbeJustFailed =>
       /\ cpc = "wait" /\ sending = ""
       /\ spc = "gather" /\ running
       /\ cycleEnd # << >> /\ cycleEnd[2] = "interval"
  /\ cpc = "wait" /\ cycleLog = << "send:$tu" >> =>
       /\ recent_messages = << >>
       /\ moday_response = << >>
       /\ rolls_left = 0

\* The probe failed on a 403 while the channel held a reply of the peer.
C12_Witness ==
  /\ ProbeJustFailed
  /\ lastReturn.status = "403"
  /\ \E k \in 1..Len(channel) : channel[k].author.id = MODAY_UID

\* C13: handle_moday_message is called only for messages whose author id is
\* the peer's: never for a message of the account itself, and never for a
\* message of any other user, whatever the author's name or the content.
C13_OnlyPeerIdDispatched ==
  /\ InHandle => messages[mi].author.id = MODAY_UID
  /\ \A id \in 1..Len(channel) :
       dispatched[id] > 0 => channel[id].author.id = MODAY_UID

\* C14: the cursor changes only in the step that ends a completed scan; a
\* completed scan of a non-empty batch leaves it at the batch's newest id,
\* whether or not a message of the batch was dispatched; a scan that the
\* except clause of the loop cut short leaves it as it was.
C14_CursorSetOnlyByCompletedScan ==
  [][ /\ last_message_id' # last_message_id => lastScan' = "completed"
      /\ lastScan' = "completed" /\ messages' # << >>
           => last_message_id' = messages'[1].id
      /\ lastScan' = "failed" => last_message_id' = last_message_id ]_vars

\* A scan dispatched a message and was then cut short by an error, with a
\* batch whose newest id is not the cursor.
C14_Witness ==
  /\ lastScan = "failed"
  /\ \E id \in 1..MaxMsgs : dispatched[id] > 0
  /\ messages # << >>
  /\ messages[1].id # last_message_id

\* An error in the current or the last claim cycle, and in the current
\* monitor iteration: a transport call that failed, a cycle that ended early
\* or by an exception, a scan that the except clause cut short.
ClaimCycleError ==
  \/ cycleEnd # << >> /\ cycleEnd[1] # "normal"
  \/ lastReturn.loop = "claim" /\ lastReturn.status \in {"403", "exc", "429"}

MonitorIterationError ==
  \/ lastScan = "failed"
  \/ lastReturn.loop = "monitor" /\ lastReturn.status \in {"403", "exc", "429"}

MonitorStep == MonitorFetch \/ MonitorReact \/ MonitorReactRetry \/ MonitorAfterHandle
ClaimStep ==
  ClaimProbe \/ ClaimSend \/ ClaimSendRetry \/ ClaimFetchReply \/ ClaimPaceDone

\* C15: while self.running is set, an error in a claim cycle or in a monitor
\* iteration ends neither loop: both coroutines are still gathered on the
\* open session, and each of them has a next step to take.
C15_ErrorEndsNoLoop ==
  running /\ (ClaimCycleError \/ MonitorIterationError) =>
    /\ spc = "gather" /\ session = "open"
    /\ mpc \in {"poll", "react", "react_backoff", "handled"}
    /\ cpc \in {"wait", "sending", "send_backoff", "fetch_reply", "pace"}
    /\ ENABLED MonitorStep
    /\ ENABLED ClaimStep

\* A claim cycle ended by an exception, and after it the monitor made a scan
\* that its except clause cut short.
C15_Witness ==
  /\ cycleEnd # << >> /\ cycleEnd[1] = "exception"
  /\ lastScan = "failed"
  /\ cpc = "wait" /\ mpc = "poll" /\ running

\* start() has ended without a KeyboardInterrupt: get_user_info raised.
IdentityFailed == spc = "closed" /\ interrupted = << >>

\* C16: when get_user_info fails, neither loop ever starts: self.running is
\* never set, no batch is fetched, no command sent and no reaction added,
\* whatever is posted in the channel afterwards, and the session is closed.
C16_IdentityFailureStartsNothing ==
  IdentityFailed =>
    /\ ~running
    /\ session = "closed"
    /\ mpc = "poll" /\ cpc = "wait"
    /\ messages = << >> /\ recent_messages = << >>
    /\ cycleLog = << >> /\ handleLog = << >> /\ sending = ""
    /\ \A id \in 1..MaxMsgs : dispatched[id] = 0
    /\ \A k \in 1..Len(channel) : channel[k].author # SelfUser
    /\ lastReturn = NoCall /\ lastRetry = << >>
    /\ ~ENABLED MonitorStep
    /\ ~ENABLED ClaimStep
    /\ user_info = << >>

\* Identity resolution failed and the channel filled up afterwards.
C16_Witness == IdentityFailed /\ Len(channel) = MaxMsgs

\* C17: a loop that waits holds the other one back at no point: wherever
\* the claim loop is suspended (in the backoff sleep of a 429, in a pacing
\* sleep, at any other point of its cycle) the monitor's next step can be
\* taken, and wherever the monitor is suspended the claim loop's next step
\* can be taken.
C17_SleepsHoldNoLoopBack ==
  spc = "gather" /\ running =>
    /\ ENABLED MonitorStep
    /\ ENABLED ClaimStep
    /\ cpc \in {"send_backoff", "pace"} /\ mpc = "poll" => ENABLED MonitorFetch
    /\ mpc \in {"react_backoff", "handled"} /\ cpc = "wait" => ENABLED ClaimProbe

\* The monitor fetched a batch in the last step, the claim loop being in the
\* backoff sleep of a rate-limited send all the while.
C17_Witness ==
  /\ cpc = "send_backoff"
  /\ lastReturn.loop = "monitor" /\ lastReturn.op = "get_recent_messages"
  /\ lastReturn.value = "list"

C19_NewPeerMessagesDispatched ==
  \A id \in 1..Len(channel) :
    (id <= last_message_id /\ channel[id].author.id = MODAY_UID)
      => dispatched[id] >= 1

\* The id of the newest "$tu" of the account in the channel: the probe of
\* the current cycle, once its send has succeeded.
ProbeId ==
  LET P == {k \in 1..Len(channel) :
              channel[k].author = SelfUser /\ channel[k].content = << "$tu" >>}
  IN IF P = {} THEN 0 ELSE CHOOSE k \in P : \A j \in P : j <= k

\* C20: the reply a cycle parses is the content of a message of the fetched
\* batch that was posted after the cycle's own probe, so the rolls a cycle
\* sends never rest on an older message.
C20_ReplyPostdatesProbe ==
  Fetched /\ moday_response # << >> =>
    \E k \in 1..Len(recent_messages) :
      /\ recent_messages[k].content = moday_response
      /\ recent_messages[k].id > ProbeId

====
